---- MODULE Spec2Model ----
(***************************************************************************)
(* Model of src/api_bsl.py: the BLS client APIbureau.                      *)
(*                                                                         *)
(*   __generic_request   one POST, three outcomes (rows, status)           *)
(*   __single_series     the year-window loop over __generic_request       *)
(*   __clean_dataframe   date column, sort by date, value to float         *)
(*   __save_dataframe    file format dispatch                              *)
(*   process_cpi_series  splitter -> guard -> cleaner -> writer -> plot    *)
(*                                                                         *)
(* Spec follows one call of process_cpi_series step by step; the upstream  *)
(* response of every request is an input.  SpecClean applies               *)
(* __clean_dataframe once and then again to every small table.             *)
(***************************************************************************)
EXTENDS Integers, Sequences, FiniteSets, TLC

VARIABLES
    pc,          \* position in process_cpi_series / __single_series
    p_start,     \* process_cpi_series argument start_year
    p_end,       \* process_cpi_series argument end_year
    format,      \* process_cpi_series argument format
    plot,        \* process_cpi_series argument plot
    start_year,  \* __single_series local start_year (advanced by the loop)
    n_iter,      \* length of range(...) of the for loop, fixed at loop entry
    i,           \* iterations of the for loop completed
    list_df,     \* __single_series local list_df
    df,          \* current table (local df of the running function)
    status,      \* local status
    posts,       \* HTTP requests sent: the JSON payloads of requests.post
    calls,       \* __generic_request calls: response received and result returned
    ret,         \* <<>> until __single_series returns, then <<[df, status]>>
    err,         \* exception that ended the call: "none", "ValueError", "KeyError"
    raisedIn,    \* function whose statement raised it
    invoked,     \* components the facade has invoked after the splitter
    files,       \* files written
    warnings,    \* messages printed by the writer
    t_in,        \* SpecClean: the table given to __clean_dataframe
    t_once,      \* SpecClean: clean(t_in)
    t_twice,     \* SpecClean: clean(clean(t_in))
    cpc          \* SpecClean: position

vars == <<pc, p_start, p_end, format, plot, start_year, n_iter, i, list_df, df,
          status, posts, calls, ret, err, raisedIn, invoked, files, warnings,
          t_in, t_once, t_twice, cpc>>

mainVars == <<pc, p_start, p_end, format, plot, start_year, n_iter, i, list_df, df,
              status, posts, calls, ret, err, raisedIn, invoked, files, warnings>>

cleanVars == <<t_in, t_once, t_twice, cpc>>

----------------------------------------------------------------------------
(* Bounds of the model *)

\* the largest end_year - start_year explored
MaxSpan == 21

\* the largest number of rows of a table given to the cleaner in SpecClean
MaxRows == 3

----------------------------------------------------------------------------
(* Program constants *)

HTTP_OK == 200

\* `end_year - start_year > 10`
SpanLimit == 10

\* `int((end_year - start_year)/10)+1`
RangeDivisor == 10

\* `start_year += 10`
YearStep == 10

\* start_year of the module's entry point
ExampleStartYear == 2000

REQUEST_SUCCEEDED == "REQUEST_SUCCEEDED"

TICKER == "CUSR0000SAM"

----------------------------------------------------------------------------
(* Observation rows and tables *)

\* the value field as the API sends it (a string holding a number)
StrValue(n) == [kind |-> "str", num |-> n]

\* the value field after astype(float)
FloatValue(n) == [kind |-> "float", num |-> n]

\* a row of Results.series[0].data; period is prefix + two digits
RawRow(y, m, n) == [year |-> y, period |-> <<"M", m>>, value |-> StrValue(n)]

\* NaT, the null date
NaT == <<>>

\* df['period'].str[1:] : drops the first character of the period code
PeriodSuffix(period) == period[2]

\* pd.to_datetime(year + '-' + suffix, errors='coerce', format='%Y-%m')
ToDatetime(y, period) ==
    IF PeriodSuffix(period) \in 1..12 THEN <<y, PeriodSuffix(period)>> ELSE NaT

\* date order of two non-null dates
DateLess(a, b) == a[1] < b[1] \/ (a[1] = b[1] /\ a[2] < b[2])

\* astype(float) of a value field that holds a number
AsFloat(v) == FloatValue(v.num)

----------------------------------------------------------------------------
(* __clean_dataframe *)

\* line 104: the table with its date column (re)computed from year and period
WithDate(t) ==
    [k \in 1..Len(t) |->
        [year |-> t[k].year, period |-> t[k].period, value |-> t[k].value,
         date |-> ToDatetime(t[k].year, t[k].period)]]

\* row a has to come before row b in every result of sort_values(by='date'):
\* ascending dates, na_position='last', null rows kept in their input order.
\* Rows with equal non-null dates are not ordered: the default kind is
\* 'quicksort', which is not a stable sort.
MustPrecede(t, a, b) ==
    \/ t[a].date # NaT /\ t[b].date = NaT
    \/ t[a].date # NaT /\ t[b].date # NaT /\ DateLess(t[a].date, t[b].date)
    \/ t[a].date = NaT /\ t[b].date = NaT /\ a < b

RECURSIVE SortOrders(_, _)
\* the index orders sort_values may produce for the rows S of t
SortOrders(t, S) ==
    IF S = {} THEN {<<>>}
    ELSE UNION { { <<a>> \o rest : rest \in SortOrders(t, S \ {a}) } :
                 a \in { x \in S : \A y \in S : ~MustPrecede(t, y, x) } }

\* mutant of SortValues: the sort is left out
SortValuesNoSort(t) == {t}

\* line 105: df.sort_values(by='date')
SortValues(t) ==
    { [k \in 1..Len(t) |-> t[o[k]]] : o \in SortOrders(t, 1..Len(t)) }

\* line 106: df['value'].astype(float)
CoerceValues(t) == [k \in 1..Len(t) |-> [t[k] EXCEPT !.value = AsFloat(@)]]

\* __clean_dataframe(df): the tables it may return
CleanDataframe(t) == { CoerceValues(s) : s \in SortValues(WithDate(t)) }

\* df['year'] on a frame without columns (pd.DataFrame(), or a concat of
\* such frames) raises KeyError; every frame without rows is such a frame here
CleanRaisesKeyError(t) == t = <<>>

----------------------------------------------------------------------------
(* __generic_request *)

\* HTTP status codes the upstream may answer with
HttpStatuses == {HTTP_OK, 500}

\* the "status" field of a JSON body
PayloadStatuses == {REQUEST_SUCCEEDED, "REQUEST_NOT_PROCESSED"}

\* Results.series[0].data of a JSON body: no rows, or an annual-average row
\* (M13) followed by a January row
DataLists == {<<>>, <<RawRow(ExampleStartYear, 13, 2), RawRow(ExampleStartYear, 1, 1)>>}

\* the responses requests.post may return
Responses == [http : HttpStatuses, payload : PayloadStatuses, data : DataLists]

\* lines 35-39: the JSON payload of the POST
Payload(series_id, s, e) == [seriesid |-> <<series_id>>, startyear |-> s, endyear |-> e]

\* pd.DataFrame.from_records(records): one table row per record, in order
FromRecords(records) == [k \in 1..Len(records) |-> records[k]]

\* pd.DataFrame()
EmptyFrame == <<>>

\* mutant of GenericRequest: a non-200 answer is retried once
GenericRequestRetry(series_id, s, e, resp) ==
    IF resp.http = HTTP_OK
    THEN IF resp.payload = REQUEST_SUCCEEDED
         THEN [sent |-> <<Payload(series_id, s, e)>>,
               df |-> FromRecords(resp.data), status |-> resp.http]
         ELSE [sent |-> <<Payload(series_id, s, e)>>,
               df |-> EmptyFrame, status |-> resp.http]
    ELSE [sent |-> <<Payload(series_id, s, e), Payload(series_id, s, e)>>,
          df |-> EmptyFrame, status |-> resp.http]

\* lines 41-52: the POSTs sent and the (DataFrame, status_code) returned
GenericRequest(series_id, s, e, resp) ==
    IF resp.http = HTTP_OK
    THEN IF resp.payload = REQUEST_SUCCEEDED
         THEN [sent |-> <<Payload(series_id, s, e)>>,
               df |-> FromRecords(resp.data), status |-> resp.http]
         ELSE [sent |-> <<Payload(series_id, s, e)>>,
               df |-> EmptyFrame, status |-> resp.http]
    ELSE [sent |-> <<Payload(series_id, s, e)>>,
          df |-> EmptyFrame, status |-> resp.http]

\* the entry of the call log for one __generic_request call
CallRecord(s, e, resp, r) ==
    [start |-> s, end |-> e, resp |-> resp, df |-> r.df, status |-> r.status]

----------------------------------------------------------------------------
(* __single_series *)

\* line 69: the span needs more than one request
NeedsSplit(s, e) == e - s > SpanLimit

\* line 70: len(range(int((end_year - start_year)/10)+1))
RangeLength(s, e) == ((e - s) \div RangeDivisor) + 1

\* line 72: `df.empty and status == 200` inside the loop
LoopEmptyCheck(d, st) == d = EmptyFrame /\ st = HTTP_OK

RECURSIVE Concat(_)
\* line 78: pd.concat(list_df, ignore_index=True)
Concat(l) == IF l = <<>> THEN <<>> ELSE Head(l) \o Concat(Tail(l))

----------------------------------------------------------------------------
(* __save_dataframe *)

\* the format strings tried
Formats == {"xlsx", "csv", "txt", "json"}

\* the base file name given to the writer
OutputName == "X"

\* mutant of SaveDataframe: an unrecognized format is written under its own
\* extension, without a warning
SaveDataframeNoFallback(d, file_extension, name) ==
    IF file_extension = "xlsx"
    THEN [file |-> [base |-> name, ext |-> "xlsx", writer |-> "to_excel", sep |-> "none", rows |-> d],
          printed |-> <<>>]
    ELSE IF file_extension = "txt"
    THEN [file |-> [base |-> name, ext |-> "txt", writer |-> "to_csv", sep |-> ";", rows |-> d],
          printed |-> <<>>]
    ELSE [file |-> [base |-> name, ext |-> file_extension, writer |-> "to_csv", sep |-> ",", rows |-> d],
          printed |-> <<>>]

\* lines 93-101: the file written and the messages printed
SaveDataframe(d, file_extension, name) ==
    IF file_extension = "xlsx"
    THEN [file |-> [base |-> name, ext |-> "xlsx", writer |-> "to_excel", sep |-> "none", rows |-> d],
          printed |-> <<>>]
    ELSE IF file_extension = "csv"
    THEN [file |-> [base |-> name, ext |-> "csv", writer |-> "to_csv", sep |-> ",", rows |-> d],
          printed |-> <<>>]
    ELSE IF file_extension = "txt"
    THEN [file |-> [base |-> name, ext |-> "txt", writer |-> "to_csv", sep |-> ";", rows |-> d],
          printed |-> <<>>]
    ELSE [file |-> [base |-> name, ext |-> "xlsx", writer |-> "to_excel", sep |-> "none", rows |-> d],
          printed |-> <<[unsupported |-> file_extension, default |-> "xlsx"]>>]

----------------------------------------------------------------------------
(* process_cpi_series *)

\* mutant of FacadeEmptyCheck: the facade's second guard is missing
FacadeEmptyCheckMissing(d, st) == FALSE

\* line 123: `df.empty and status == 200` after the splitter returned
FacadeEmptyCheck(d, st) == d = EmptyFrame /\ st = HTTP_OK

----------------------------------------------------------------------------
(* One call of process_cpi_series *)

\* the start_year values tried
StartYears == {ExampleStartYear, ExampleStartYear + 3}

Init ==
    /\ pc = "start"
    /\ p_start \in StartYears
    /\ p_end \in (p_start - 1)..(p_start + MaxSpan)
    /\ format \in Formats
    /\ plot \in BOOLEAN
    /\ start_year = p_start
    /\ n_iter = 0
    /\ i = 0
    /\ list_df = <<>>
    /\ df = EmptyFrame
    /\ status = 0
    /\ posts = <<>>
    /\ calls = <<>>
    /\ ret = <<>>
    /\ err = "none"
    /\ raisedIn = "none"
    /\ invoked = {}
    /\ files = <<>>
    /\ warnings = <<>>
    /\ t_in = <<>>
    /\ t_once = <<>>
    /\ t_twice = <<>>
    /\ cpc = "off"

\* lines 122, 68-70: __single_series is entered and picks its branch
SingleSeriesEnter ==
    /\ pc = "start"
    /\ list_df' = <<>>
    /\ start_year' = p_start
    /\ IF NeedsSplit(p_start, p_end)
       THEN /\ n_iter' = RangeLength(p_start, p_end)
            /\ pc' = "loop"
       ELSE /\ n_iter' = 0
            /\ pc' = "direct"
    /\ UNCHANGED <<p_start, p_end, format, plot, i, df, status, posts, calls, ret,
                   err, raisedIn, invoked, files, warnings>>
    /\ UNCHANGED cleanVars

\* lines 70-76: one iteration of the for loop
LoopIteration ==
    /\ pc = "loop"
    /\ i < n_iter
    /\ \E resp \in Responses :
         LET r == GenericRequest(TICKER, start_year, p_end, resp) IN
         /\ posts' = posts \o r.sent
         /\ calls' = Append(calls, CallRecord(start_year, p_end, resp, r))
         /\ df' = r.df
         /\ status' = r.status
         /\ IF LoopEmptyCheck(r.df, r.status)
            THEN /\ err' = "ValueError"
                 /\ raisedIn' = "__single_series"
                 /\ pc' = "raised"
                 /\ UNCHANGED <<start_year, list_df, i>>
            ELSE /\ start_year' = start_year + YearStep
                 /\ list_df' = Append(list_df, r.df)
                 /\ i' = i + 1
                 /\ UNCHANGED <<err, raisedIn, pc>>
    /\ UNCHANGED <<p_start, p_end, format, plot, n_iter, ret, invoked, files, warnings>>
    /\ UNCHANGED cleanVars

\* mutant of LoopExit: the status returned is the first window's
LoopExitFirstStatus ==
    /\ pc = "loop"
    /\ i = n_iter
    /\ df' = Concat(list_df)
    /\ ret' = <<[df |-> df', status |-> calls[1].status]>>
    /\ pc' = "guard"
    /\ UNCHANGED <<p_start, p_end, format, plot, start_year, n_iter, i, list_df,
                   status, posts, calls, err, raisedIn, invoked, files, warnings>>
    /\ UNCHANGED cleanVars

\* lines 78, 81: the loop is exhausted; concat and return
LoopExit ==
    /\ pc = "loop"
    /\ i = n_iter
    /\ df' = Concat(list_df)
    /\ ret' = <<[df |-> df', status |-> status]>>
    /\ pc' = "guard"
    /\ UNCHANGED <<p_start, p_end, format, plot, start_year, n_iter, i, list_df,
                   status, posts, calls, err, raisedIn, invoked, files, warnings>>
    /\ UNCHANGED cleanVars

\* mutant of DirectRequest: the else branch repeats the loop's empty check
DirectRequestWithEmptyCheck ==
    /\ pc = "direct"
    /\ \E resp \in Responses :
         LET r == GenericRequest(TICKER, start_year, p_end, resp) IN
         /\ posts' = posts \o r.sent
         /\ calls' = Append(calls, CallRecord(start_year, p_end, resp, r))
         /\ df' = r.df
         /\ status' = r.status
         /\ IF r.df = EmptyFrame /\ r.status = HTTP_OK
            THEN /\ err' = "ValueError"
                 /\ raisedIn' = "__single_series"
                 /\ pc' = "raised"
                 /\ UNCHANGED ret
            ELSE /\ ret' = <<[df |-> r.df, status |-> r.status]>>
                 /\ pc' = "guard"
                 /\ UNCHANGED <<err, raisedIn>>
    /\ UNCHANGED <<p_start, p_end, format, plot, start_year, n_iter, i, list_df,
                   invoked, files, warnings>>
    /\ UNCHANGED cleanVars

\* lines 80-81: the else branch; one request for the whole span, and return
DirectRequest ==
    /\ pc = "direct"
    /\ \E resp \in Responses :
         LET r == GenericRequest(TICKER, start_year, p_end, resp) IN
         /\ posts' = posts \o r.sent
         /\ calls' = Append(calls, CallRecord(start_year, p_end, resp, r))
         /\ df' = r.df
         /\ status' = r.status
         /\ ret' = <<[df |-> r.df, status |-> r.status]>>
    /\ pc' = "guard"
    /\ UNCHANGED <<p_start, p_end, format, plot, start_year, n_iter, i, list_df,
                   err, raisedIn, invoked, files, warnings>>
    /\ UNCHANGED cleanVars

\* lines 123-124: the facade's own empty check
FacadeGuard ==
    /\ pc = "guard"
    /\ IF FacadeEmptyCheck(df, status)
       THEN /\ err' = "ValueError"
            /\ raisedIn' = "process_cpi_series"
            /\ pc' = "raised"
       ELSE /\ pc' = "clean"
            /\ UNCHANGED <<err, raisedIn>>
    /\ UNCHANGED <<p_start, p_end, format, plot, start_year, n_iter, i, list_df, df,
                   status, posts, calls, ret, invoked, files, warnings>>
    /\ UNCHANGED cleanVars

\* line 125: df = self.__clean_dataframe(df)
Clean ==
    /\ pc = "clean"
    /\ invoked' = invoked \cup {"cleaner"}
    /\ IF CleanRaisesKeyError(df)
       THEN /\ err' = "KeyError"
            /\ raisedIn' = "__clean_dataframe"
            /\ pc' = "raised"
            /\ UNCHANGED df
       ELSE /\ df' \in CleanDataframe(df)
            /\ pc' = "save"
            /\ UNCHANGED <<err, raisedIn>>
    /\ UNCHANGED <<p_start, p_end, format, plot, start_year, n_iter, i, list_df,
                   status, posts, calls, ret, files, warnings>>
    /\ UNCHANGED cleanVars

\* lines 126-127: self.__save_dataframe(df, format, output_filename)
Save ==
    /\ pc = "save"
    /\ invoked' = invoked \cup {"writer"}
    /\ LET w == SaveDataframe(df, format, OutputName) IN
         /\ files' = Append(files, w.file)
         /\ warnings' = warnings \o w.printed
    /\ pc' = IF plot THEN "plot" ELSE "done"
    /\ UNCHANGED <<p_start, p_end, format, plot, start_year, n_iter, i, list_df, df,
                   status, posts, calls, ret, err, raisedIn>>
    /\ UNCHANGED cleanVars

\* line 128: PlotSeries().plot_series_cpi(...).show()
Plot ==
    /\ pc = "plot"
    /\ invoked' = invoked \cup {"plotter"}
    /\ pc' = "done"
    /\ UNCHANGED <<p_start, p_end, format, plot, start_year, n_iter, i, list_df, df,
                   status, posts, calls, ret, err, raisedIn, files, warnings>>
    /\ UNCHANGED cleanVars

Next ==
    \/ SingleSeriesEnter
    \/ LoopIteration
    \/ LoopExit
    \/ DirectRequest
    \/ FacadeGuard
    \/ Clean
    \/ Save
    \/ Plot

Spec == Init /\ [][Next]_vars

----------------------------------------------------------------------------
(* __clean_dataframe applied once, then again, to every small table *)

\* the rows tried: two years, January, February and the annual average M13,
\* two values
CleanRows == { RawRow(y, m, n) : y \in {ExampleStartYear, ExampleStartYear + 1},
                                m \in {1, 2, 13}, n \in {1, 2} }

RECURSIVE TablesOfLen(_)
\* the tables of exactly n rows
TablesOfLen(n) ==
    IF n = 0 THEN {<<>>}
    ELSE { Append(t, r) : t \in TablesOfLen(n - 1), r \in CleanRows }

\* the tables with columns: one to MaxRows rows
CleanTables == UNION { TablesOfLen(n) : n \in 1..MaxRows }

InitClean ==
    /\ pc = "off"
    /\ p_start = ExampleStartYear
    /\ p_end = ExampleStartYear
    /\ format = "xlsx"
    /\ plot = FALSE
    /\ start_year = p_start
    /\ n_iter = 0
    /\ i = 0
    /\ list_df = <<>>
    /\ df = EmptyFrame
    /\ status = 0
    /\ posts = <<>>
    /\ calls = <<>>
    /\ ret = <<>>
    /\ err = "none"
    /\ raisedIn = "none"
    /\ invoked = {}
    /\ files = <<>>
    /\ warnings = <<>>
    /\ t_in \in CleanTables
    /\ t_once = <<>>
    /\ t_twice = <<>>
    /\ cpc = "input"

\* clean(t)
CleanOnce ==
    /\ cpc = "input"
    /\ t_once' \in CleanDataframe(t_in)
    /\ cpc' = "once"
    /\ UNCHANGED <<t_in, t_twice>>
    /\ UNCHANGED mainVars

\* clean(clean(t))
CleanTwice ==
    /\ cpc = "once"
    /\ t_twice' \in CleanDataframe(t_once)
    /\ cpc' = "twice"
    /\ UNCHANGED <<t_in, t_once>>
    /\ UNCHANGED mainVars

NextClean ==
    \/ CleanOnce
    \/ CleanTwice

SpecClean == InitClean /\ [][NextClean]_vars

----------------------------------------------------------------------------
(* Properties *)

\* the span of the call
Span == p_end - p_start

\* ceil(a / b) for a >= 0, b > 0
CeilDiv(a, b) == (a + b - 1) \div b

\* __single_series has returned normally
SplitterReturned == ret # <<>>

\* the last __generic_request call
LastCall == calls[Len(calls)]

\* some request came back as (empty table, 200)
AnyEmpty200 == \E k \in 1..Len(calls) : calls[k].df = <<>> /\ calls[k].status = 200

\* C1: for a span over 10 years, the windows requested by __single_series
\* start at start_year, each cover at most 10 years, follow one another
\* without gap or overlap, and end at end_year.
C1_WindowsPartitionSpan ==
    (SplitterReturned /\ Span > 10) =>
        /\ posts[1].startyear = p_start
        /\ posts[Len(posts)].endyear = p_end
        /\ \A k \in 1..Len(posts) :
             /\ posts[k].startyear <= posts[k].endyear
             /\ posts[k].endyear - posts[k].startyear <= 10
        /\ \A k \in 1..(Len(posts) - 1) :
             posts[k + 1].startyear = posts[k].endyear + 1

\* C2: for a span over 10 years, __single_series issues exactly
\* ceil(span / 10) requests before it returns.
C2_RequestCountIsCeil ==
    (SplitterReturned /\ Span > 10) => Len(posts) = CeilDiv(Span, 10)

\* C3: for a span of at most 10 years, __single_series issues exactly one
\* request, for [start_year, end_year], and returns that call's (table,
\* status) pair unchanged, never raising itself, the empty table included.
C3_ShortSpanSingleRequest ==
    (Span <= 10 /\ pc \notin {"start", "direct"}) =>
        /\ Len(calls) = 1
        /\ posts = <<[seriesid |-> <<TICKER>>, startyear |-> p_start, endyear |-> p_end]>>
        /\ calls[1].start = p_start /\ calls[1].end = p_end
        /\ ret = <<[df |-> calls[1].df, status |-> calls[1].status]>>
        /\ raisedIn # "__single_series"

\* C3 witness: a short span whose single request came back empty with 200
\* and was returned to the facade.
C3_Witness ==
    /\ Span <= 10
    /\ pc = "guard"
    /\ Len(calls) = 1
    /\ ret = <<[df |-> <<>>, status |-> 200]>>

\* C4: once any request has come back as (empty table, 200), the call is at
\* the facade's guard with that empty table and status 200, or has raised
\* ValueError; cleaner, writer and plotter have not been invoked and no file
\* is written.
C4_Empty200AlwaysRaises ==
    AnyEmpty200 =>
        /\ pc \in {"guard", "raised"}
        /\ pc = "raised" => err = "ValueError"
        /\ pc = "guard" => (df = <<>> /\ status = 200)
        /\ invoked = {}
        /\ files = <<>>

\* C4 witness: a short span raised by the facade's guard.
C4_Witness ==
    /\ AnyEmpty200
    /\ Span <= 10
    /\ pc = "raised"
    /\ err = "ValueError"
    /\ raisedIn = "process_cpi_series"

\* C5: the integrity error (ValueError) is raised only when the last response
\* was successful but empty (HTTP 200, REQUEST_SUCCEEDED, zero rows), never
\* for an upstream-reported failure or an HTTP failure.
C5_IntegrityErrorOnlyForSuccessfulEmpty ==
    err = "ValueError" =>
        /\ LastCall.resp.http = 200
        /\ LastCall.resp.payload = "REQUEST_SUCCEEDED"
        /\ LastCall.resp.data = <<>>

C7_WriterDispatch ==
    "writer" \in invoked =>
        /\ Len(files) = 1
        /\ files[1].base = "X"
        /\ err = "none"
        /\ format = "xlsx" => (files[1].ext = "xlsx" /\ files[1].writer = "to_excel"
                               /\ warnings = <<>>)
        /\ format = "csv" => (files[1].ext = "csv" /\ files[1].writer = "to_csv"
                              /\ files[1].sep = "," /\ warnings = <<>>)
        /\ format = "txt" => (files[1].ext = "txt" /\ files[1].writer = "to_csv"
                              /\ files[1].sep = ";" /\ warnings = <<>>)
        /\ format \notin {"xlsx", "csv", "txt"} =>
              (files[1].ext = "xlsx" /\ files[1].writer = "to_excel" /\ Len(warnings) = 1)

\* C7 witness: format 'json' ended with X.xlsx written and one warning.
C7_Witness ==
    /\ pc = "done"
    /\ format = "json"
    /\ Len(files) = 1
    /\ files[1].ext = "xlsx"
    /\ Len(warnings) = 1

\* C8: the cleaned table has as many rows as its input; a row has a null
\* date exactly when its period does not denote a month 01..12, and
\* otherwise the date of its year and month; rows with a date are in
\* ascending date order and every null-date row comes after them.
C8_CleanerSortsAndKeepsRows ==
    cpc \in {"once", "twice"} =>
        /\ Len(t_once) = Len(t_in)
        /\ \A k \in 1..Len(t_once) :
             IF t_once[k].period[2] \in 1..12
             THEN t_once[k].date = <<t_once[k].year, t_once[k].period[2]>>
             ELSE t_once[k].date = <<>>
        /\ \A a, b \in 1..Len(t_once) :
             a < b =>
               /\ ~(t_once[a].date = <<>> /\ t_once[b].date # <<>>)
               /\ (t_once[a].date # <<>> /\ t_once[b].date # <<>>)
                     => ~DateLess(t_once[b].date, t_once[a].date)

\* C8 witness: an M13 row given first ends last with a null date, behind two
\* dated rows that were given in descending order.
C8_Witness ==
    /\ cpc = "once"
    /\ Len(t_in) = 3
    /\ t_in[1].period[2] = 13
    /\ t_in[2].year > t_in[3].year
    /\ t_once[3].date = <<>>
    /\ t_once[1].date # <<>>
    /\ t_once[2].date # <<>>

\* C9: cleaning a cleaned table returns the same table: clean(clean(t)) is
\* clean(t), row by row, also when rows share a date or have a null date.
C9_CleanerIdempotent ==
    cpc = "twice" => t_twice = t_once

\* C10: when __single_series has returned, the status it returned is that of
\* the last request issued, and every window of the loop was requested,
\* whatever statuses earlier windows had.
C10_ReturnsLastStatus ==
    SplitterReturned =>
        /\ ret[1].status = LastCall.status
        /\ Span > 10 => Len(calls) = n_iter

\* C10 witness: the first window failed with a non-200 status, the loop went
\* on, and the status returned is the 200 of the last window.
C10_Witness ==
    /\ SplitterReturned
    /\ Len(calls) >= 2
    /\ calls[1].status # 200
    /\ ret[1].status = 200

====
